---- MODULE Spec2Model ----
(***************************************************************************)
(* The conversational server of app.py: one POST endpoint (main) that      *)
(* restores a checkpoint store from the client-held history                *)
(* (init_state_graph), runs one inference step (invoke -> call_model ->    *)
(* pre_processing -> remote model) and flattens the store back into a      *)
(* transportable history (post_processing).                                *)
(*                                                                         *)
(* A text is a sequence of characters.  The character "L" stands for a     *)
(* long passage: the token counter charges it 300 tokens, every other      *)
(* character one token.                                                    *)
(***************************************************************************)
EXTENDS Integers, Sequences, FiniteSets, TLC

\* ------------------------------------------------------------------ bounds
NumWorkers == 2     \* request handlers the server runs at the same time
MaxChain == 2       \* longest held conversation (in requests) a client resends

\* ------------------------------------------------------- program constants
max_tokens == 500          \* trim_messages(max_tokens=500)
PrettyPrefix == 82         \* pretty_repr()[82:]

Workers == 1..NumWorkers
ThreadIds == {"1", "2"}
graph_config == [configurable |-> [thread_id |-> "1"]]

HumanInputs == {<<"a">>, <<"L", "L">>}
Replies == {<<>>, <<"a", " ">>, <<"L">>}

None == <<>>
SystemInstruction ==
    <<"You are a friendly alien, full of wisdom and goodness. Answer all questions to the best of your ability.">>

\* ----------------------------------------------------------------- messages
HumanMessage(content) == [type |-> "human", content |-> content]
AIMessage(content) == [type |-> "ai", content |-> content]
SystemMessage == [type |-> "system", content |-> SystemInstruction]

Suffix(s, n) == SubSeq(s, Len(s) - n + 1, Len(s))
Last(s) == s[Len(s)]

\* ------------------------------------------------------------ token counter
CharTokens(c) == IF c = "L" THEN 300 ELSE 1

RECURSIVE get_num_tokens(_)
get_num_tokens(text) ==
    IF text = <<>> THEN 0
    ELSE CharTokens(Head(text)) + get_num_tokens(Tail(text))

RECURSIVE get_num_tokens_from_messages(_)
get_num_tokens_from_messages(messages) ==
    IF messages = <<>> THEN 0
    ELSE get_num_tokens(Head(messages).content)
         + get_num_tokens_from_messages(Tail(messages))

\* trim_messages(strategy="last", allow_partial=False, start_on="human"):
\* the longest suffix of whole messages within the budget, then its oldest
\* messages are dropped until it starts on a human message.
trim_messages(messages) ==
    LET n == Len(messages)
        fit == {k \in 1..n :
                  get_num_tokens_from_messages(Suffix(messages, k)) <= max_tokens}
        idx == IF fit = {} THEN 0 ELSE CHOOSE k \in fit : \A j \in fit : j <= k
        starts == {k \in 0..idx :
                     k = 0 \/ messages[n - k + 1].type = "human"}
        keep == CHOOSE k \in starts : \A j \in starts : j <= k
    IN  Suffix(messages, keep)

pre_processing(messages) == <<SystemMessage>> \o trim_messages(messages)

\* ------------------------------------------------------------- pretty_repr
IsSpace(c) == c \in {" ", "\n"}

RECURSIVE lstrip(_)
lstrip(s) == IF s # <<>> /\ IsSpace(Head(s)) THEN lstrip(Tail(s)) ELSE s

RECURSIVE rstrip(_)
rstrip(s) ==
    IF s # <<>> /\ IsSpace(Last(s)) THEN rstrip(SubSeq(s, 1, Len(s) - 1)) ELSE s

strip(s) == lstrip(rstrip(s))

Sep == [i \in 1..34 |-> "="]
Title == Sep \o <<" ", "A", "i", " ", "M", "e", "s", "s", "a", "g", "e", " ">> \o Sep

\* AIMessage.pretty_repr(): title line, blank line, content; stripped, then
\* the (absent) tool-call lines appended and the whole stripped again.
pretty_repr(message) ==
    LET base == Title \o <<"\n", "\n">> \o message.content
    IN  strip(strip(base) \o <<"\n">>)

\* ------------------------------------------------------- checkpoint store
NoStore == [created |-> FALSE, storage |-> [t \in ThreadIds |-> <<>>]]
MemorySaver == [created |-> TRUE, storage |-> [t \in ThreadIds |-> <<>>]]

Without(f, key) == [k \in DOMAIN f \ {key} |-> f[k]]

put(memory, config, checkpoint, metadata, new_version) ==
    LET tid == config.configurable.thread_id
        saved == [config |-> config, checkpoint |-> checkpoint,
                  metadata |-> metadata, new_version |-> new_version]
    IN  [memory EXCEPT !.storage[tid] = Append(@, saved)]

get_tuple(memory, config) ==
    LET saved == memory.storage[config.configurable.thread_id]
    IN  IF saved = <<>> THEN None ELSE Last(saved)

\* ------------------------------------------------------- init_state_graph
Failed(memory, error) == [error |-> error, memory |-> memory]

init_state_graph(history) ==
    LET memory == MemorySaver
    IN  IF DOMAIN history = {} THEN Failed(memory, "")
        ELSE IF "prompt_list" \notin DOMAIN history THEN Failed(memory, "KeyError")
        ELSE IF "checkpoint" \notin DOMAIN history THEN Failed(memory, "KeyError")
        ELSE IF "channel_values" \notin DOMAIN history["checkpoint"]
             THEN Failed(memory, "KeyError")
        ELSE IF ~({"config", "metadata", "new_version"} \subseteq DOMAIN history)
             THEN Failed(memory, "KeyError")
        ELSE
          LET prompt_list == history["prompt_list"]
              message_objects ==
                  [idx \in 1..Len(prompt_list) |->
                      IF (idx - 1) % 2 = 0 THEN HumanMessage(prompt_list[idx])
                                           ELSE AIMessage(prompt_list[idx])]
              checkpoint ==
                  [history["checkpoint"] EXCEPT !["channel_values"] =
                      [k \in DOMAIN @ \cup {"messages"} |->
                          IF k = "messages" THEN message_objects ELSE @[k]]]
          IN  Failed(put(memory, history["config"], checkpoint,
                         history["metadata"], history["new_version"]), "")

\* ------------------------------------------ invoke (the compiled state graph)
has_checkpoint(memory, config) ==
    memory.storage[config.configurable.thread_id] # <<>>

\* The messages channel the graph resumes from: the latest checkpoint of
\* graph_config's thread, or nothing.
state_messages(memory) ==
    IF has_checkpoint(memory, graph_config)
    THEN get_tuple(memory, graph_config).checkpoint.channel_values.messages
    ELSE <<>>

\* One checkpoint written by the graph under graph_config: its id and step
\* follow the checkpoint it resumes from, which becomes its parent.
save_checkpoint(memory, messages, source, writes) ==
    LET resumed == has_checkpoint(memory, graph_config)
        parent == IF resumed THEN get_tuple(memory, graph_config).checkpoint.id ELSE 0
        step == IF resumed THEN get_tuple(memory, graph_config).metadata.step + 1 ELSE -1
        tid == graph_config.configurable.thread_id
    IN  put(memory,
            [configurable |-> [thread_id |-> tid, checkpoint_id |-> parent + 1]],
            [id |-> parent + 1, channel_values |-> [messages |-> messages]],
            [source |-> source, step |-> step, writes |-> writes],
            [configurable |-> [thread_id |-> tid, checkpoint_id |-> parent]])

\* add_messages: the channel after the new human input
input_state(memory, human_input) ==
    state_messages(memory) \o <<HumanMessage(human_input)>>

\* The channel if the trimmed window, not the whole channel, were kept.
output_state_trimmed(messages, response) ==
    trim_messages(messages) \o <<AIMessage(response)>>

\* add_messages: the channel after call_model returned {"messages": response}
output_state(messages, response) == messages \o <<AIMessage(response)>>

\* --------------------------------------------------------- post_processing
post_processing(llm_response, memory) ==
    IF ~has_checkpoint(memory, graph_config)
    THEN [error |-> "TypeError", body |-> None]
    ELSE
      LET raw_memory == get_tuple(memory, graph_config)
          config == raw_memory.config
          checkpoint == raw_memory.checkpoint
          metadata == raw_memory.metadata
          new_version == raw_memory.new_version
      IN  IF "messages" \notin DOMAIN checkpoint.channel_values
          THEN [error |-> "KeyError", body |-> None]
          ELSE IF "writes" \notin DOMAIN metadata
          THEN [error |-> "KeyError", body |-> None]
          ELSE
            LET message_objects == checkpoint.channel_values.messages
                prompt_list == [i \in 1..Len(message_objects) |->
                                   message_objects[i].content]
                history ==
                    [config |-> config,
                     checkpoint |-> [checkpoint EXCEPT !.channel_values =
                                        Without(@, "messages")],
                     prompt_list |-> prompt_list,
                     metadata |-> Without(metadata, "writes"),
                     new_version |-> new_version]
                pretty == pretty_repr(Last(llm_response))
                response == SubSeq(pretty, PrettyPrefix + 1, Len(pretty))
            IN  [error |-> "", body |-> [response |-> response, history |-> history]]

\* Flask: abort(400) is 400, an unhandled exception is 500.
http_status(error) ==
    IF error = "" THEN 200 ELSE IF error = "BadRequest" THEN 400 ELSE 500

\* ------------------------------------------------------------ JSON payloads
NoPayload == [type |-> "none", value |-> <<>>]

truthy(payload) ==
    CASE payload.type = "null" -> FALSE
      [] payload.type = "number" -> payload.value # 0
      [] payload.type = "array" -> payload.value # <<>>
      [] payload.type = "object" -> DOMAIN payload.value # {}

\* Python's `key in payload`: a key of a dict, an element of a list.
contains(payload, key) ==
    CASE payload.type = "object" -> key \in DOMAIN payload.value
      [] payload.type = "array" -> \E i \in 1..Len(payload.value) : payload.value[i] = key
      [] OTHER -> FALSE

\* lines 50-53 of main
main_guard(payload) ==
    IF ~truthy(payload) THEN "BadRequest"
    ELSE IF payload.type = "number" THEN "TypeError"
    ELSE IF ~contains(payload, "human_input") THEN "BadRequest"
    ELSE ""

\* The history a first request (input "a", reply "L") returns; the histories a
\* client forges are cut from it.
SampleHistory ==
    LET asked == save_checkpoint(MemorySaver, input_state(MemorySaver, <<"a">>),
                                 "input", <<"a">>)
        messages == output_state(state_messages(asked), <<"L">>)
        answered == save_checkpoint(asked, messages, "loop", <<"L">>)
    IN  post_processing(messages, answered).body.history

ForgedKinds ==
    {"empty", "no_prompt_list", "no_checkpoint", "no_channel_values",
     "no_metadata", "no_config", "no_new_version", "odd_prompt_list",
     "other_thread"}

Forged(kind) ==
    CASE kind = "empty" -> <<>>
      [] kind = "no_prompt_list" -> Without(SampleHistory, "prompt_list")
      [] kind = "no_checkpoint" -> Without(SampleHistory, "checkpoint")
      [] kind = "no_channel_values" ->
            [SampleHistory EXCEPT !["checkpoint"] = Without(@, "channel_values")]
      [] kind = "no_metadata" -> Without(SampleHistory, "metadata")
      [] kind = "no_config" -> Without(SampleHistory, "config")
      [] kind = "no_new_version" -> Without(SampleHistory, "new_version")
      [] kind = "odd_prompt_list" ->
            [SampleHistory EXCEPT !["prompt_list"] = SubSeq(@, 1, 1)]
      [] kind = "other_thread" ->
            [SampleHistory EXCEPT !["config"].configurable.thread_id = "2"]

Object(members) == [type |-> "object", value |-> members]

\* What a client may post.  kind: how the body is built; human_input: its text.
MalformedBodies == {"null", "empty_object", "history_only", "array", "empty_array", "number"}
FreshOptions == [kind : {"fresh"}, human_input : HumanInputs]
Options ==
    [kind : {"fresh", "resume"} \cup ForgedKinds, human_input : HumanInputs]
    \cup [kind : MalformedBodies, human_input : {<<>>}]

Body(opt, client) ==
    CASE opt.kind = "null" -> [type |-> "null", value |-> <<>>]
      [] opt.kind = "empty_object" -> Object(<<>>)
      [] opt.kind = "history_only" -> Object([history |-> SampleHistory])
      [] opt.kind = "array" -> [type |-> "array", value |-> <<"human_input">>]
      [] opt.kind = "empty_array" -> [type |-> "array", value |-> <<>>]
      [] opt.kind = "number" -> [type |-> "number", value |-> 5]
      [] opt.kind = "fresh" -> Object([human_input |-> opt.human_input])
      [] opt.kind = "resume" ->
            Object([human_input |-> opt.human_input, history |-> client.history])
      [] OTHER ->
            Object([human_input |-> opt.human_input, history |-> Forged(opt.kind)])

\* -------------------------------------------------------------------- state
VARIABLES
    pc,            \* per worker: where main is
    payload,       \* per worker: request.get_json()
    memory,        \* per worker: the MemorySaver of its llm_handle
    llm_response,  \* per worker: the messages invoke returned
    prompt,        \* per worker: the prompt given to the remote model
    calls,         \* per worker: remote completion calls of this request
    error,         \* per worker: the exception that ended the request, or ""
    status,        \* per worker: HTTP status of the reply, 0 while running
    body,          \* per worker: JSON body of the reply
    chain,         \* per worker: requests before this one in its conversation, -1 if the history is not the held one
    held           \* the client: the history it holds and the length of its conversation

vars == <<pc, payload, memory, llm_response, prompt, calls, error, status, body, chain, held>>

Init ==
    /\ pc = [r \in Workers |-> "idle"]
    /\ payload = [r \in Workers |-> NoPayload]
    /\ memory = [r \in Workers |-> NoStore]
    /\ llm_response = [r \in Workers |-> <<>>]
    /\ prompt = [r \in Workers |-> <<>>]
    /\ calls = [r \in Workers |-> 0]
    /\ error = [r \in Workers |-> ""]
    /\ status = [r \in Workers |-> 0]
    /\ body = [r \in Workers |-> None]
    /\ chain = [r \in Workers |-> -1]
    /\ held = [k |-> 0, history |-> None]

\* The request ends with an exception: Flask answers with an error page.
Raise(r, e) ==
    /\ pc' = [pc EXCEPT ![r] = "done"]
    /\ error' = [error EXCEPT ![r] = e]
    /\ status' = [status EXCEPT ![r] = http_status(e)]
    /\ body' = [body EXCEPT ![r] = None]

\* main, lines 50-53: the body is parsed and checked for human_input.
Receive(r, options) ==
    /\ pc[r] = "idle"
    /\ \E opt \in options :
         /\ opt.kind = "resume" => held.k \in 1..MaxChain
         /\ payload' = [payload EXCEPT ![r] = Body(opt, held)]
         /\ chain' = [chain EXCEPT ![r] =
                        IF opt.kind = "fresh" THEN 0
                        ELSE IF opt.kind = "resume" THEN held.k ELSE -1]
         /\ IF main_guard(Body(opt, held)) = ""
            THEN /\ pc' = [pc EXCEPT ![r] = "restore"]
                 /\ UNCHANGED <<error, status, body>>
            ELSE Raise(r, main_guard(Body(opt, held)))
    /\ UNCHANGED <<memory, llm_response, prompt, calls, held>>

\* A server that handles one request at a time.
Request(r) ==
    /\ \A q \in Workers : pc[q] = "idle"
    /\ Receive(r, Options)

\* A server whose workers take first requests of conversations concurrently.
ConcurrentRequest(r) == Receive(r, FreshOptions)

\* main, line 55: init_state_graph(payload['history']) or init_state_graph().
Restore(r) ==
    /\ pc[r] = "restore"
    /\ LET got == IF contains(payload[r], "history")
                  THEN init_state_graph(payload[r].value["history"])
                  ELSE init_state_graph(None)
       IN  /\ memory' = [memory EXCEPT ![r] = got.memory]
           /\ IF got.error = ""
              THEN /\ pc' = [pc EXCEPT ![r] = "invoke"]
                   /\ UNCHANGED <<error, status, body>>
              ELSE Raise(r, got.error)
    /\ UNCHANGED <<payload, llm_response, prompt, calls, chain, held>>

\* CallModel with one MemorySaver for the whole process: the checkpoint is
\* written to the store every running request uses.
CallModelShared(r) ==
    /\ pc[r] = "invoke"
    /\ payload[r].type = "object"
    /\ LET human_input == payload[r].value["human_input"]
           messages == input_state(memory[r], human_input)
           shared == save_checkpoint(memory[r], messages, "input", human_input)
       IN  /\ memory' = [q \in Workers |->
                           IF q = r \/ memory[q].created THEN shared ELSE memory[q]]
           /\ prompt' = [prompt EXCEPT ![r] = pre_processing(messages)]
           /\ calls' = [calls EXCEPT ![r] = @ + 1]
           /\ pc' = [pc EXCEPT ![r] = "awaiting"]
    /\ UNCHANGED <<payload, llm_response, error, status, body, chain, held>>

\* main, line 56 up to the remote call: payload['human_input'] is read, the
\* graph saves its input checkpoint, call_model builds the prompt and sends it.
CallModel(r) ==
    /\ pc[r] = "invoke"
    /\ IF payload[r].type # "object"
       THEN /\ Raise(r, "TypeError")
            /\ UNCHANGED <<memory, prompt, calls>>
       ELSE LET human_input == payload[r].value["human_input"]
                messages == input_state(memory[r], human_input)
            IN  /\ memory' = [memory EXCEPT ![r] =
                                save_checkpoint(@, messages, "input", human_input)]
                /\ prompt' = [prompt EXCEPT ![r] = pre_processing(messages)]
                /\ calls' = [calls EXCEPT ![r] = @ + 1]
                /\ pc' = [pc EXCEPT ![r] = "awaiting"]
                /\ UNCHANGED <<error, status, body>>
    /\ UNCHANGED <<payload, llm_response, chain, held>>

\* The remote model answers: the reply joins the messages channel and the
\* graph saves its final checkpoint.
ModelReply(r) ==
    /\ pc[r] = "awaiting"
    /\ \E response \in Replies :
         LET messages == output_state(state_messages(memory[r]), response)
         IN  /\ memory' = [memory EXCEPT ![r] =
                             save_checkpoint(@, messages, "loop", response)]
             /\ llm_response' = [llm_response EXCEPT ![r] = messages]
    /\ pc' = [pc EXCEPT ![r] = "post"]
    /\ UNCHANGED <<payload, prompt, calls, error, status, body, chain, held>>

\* ModelFail with a handler that catches the failure and still returns the
\* snapshot of the store.
ModelFailPartial(r) ==
    /\ pc[r] = "awaiting"
    /\ pc' = [pc EXCEPT ![r] = "done"]
    /\ error' = [error EXCEPT ![r] = "RemoteUnavailable"]
    /\ status' = [status EXCEPT ![r] = http_status("RemoteUnavailable")]
    /\ body' = [body EXCEPT ![r] =
                  post_processing(state_messages(memory[r]), memory[r]).body]
    /\ UNCHANGED <<payload, memory, llm_response, prompt, calls, chain, held>>

\* The remote call raises (network, authentication, rate limit): nothing
\* catches it.
ModelFail(r) ==
    /\ pc[r] = "awaiting"
    /\ Raise(r, "RemoteUnavailable")
    /\ UNCHANGED <<payload, memory, llm_response, prompt, calls, chain, held>>

\* main, line 58: post_processing shapes the reply.
PostProcess(r) ==
    /\ pc[r] = "post"
    /\ LET got == post_processing(llm_response[r], memory[r])
       IN  IF got.error = ""
           THEN /\ pc' = [pc EXCEPT ![r] = "done"]
                /\ status' = [status EXCEPT ![r] = 200]
                /\ body' = [body EXCEPT ![r] = got.body]
                /\ UNCHANGED error
           ELSE Raise(r, got.error)
    /\ UNCHANGED <<payload, memory, llm_response, prompt, calls, chain, held>>

\* The reply leaves; the handler's locals are gone.  The client keeps the
\* history of a conversation it started or continued.
Respond(r) ==
    /\ pc[r] = "done"
    /\ held' = IF status[r] = 200 /\ chain[r] >= 0
               THEN [k |-> chain[r] + 1, history |-> body[r].history]
               ELSE held
    /\ pc' = [pc EXCEPT ![r] = "idle"]
    /\ payload' = [payload EXCEPT ![r] = NoPayload]
    /\ memory' = [memory EXCEPT ![r] = NoStore]
    /\ llm_response' = [llm_response EXCEPT ![r] = <<>>]
    /\ prompt' = [prompt EXCEPT ![r] = <<>>]
    /\ calls' = [calls EXCEPT ![r] = 0]
    /\ error' = [error EXCEPT ![r] = ""]
    /\ status' = [status EXCEPT ![r] = 0]
    /\ body' = [body EXCEPT ![r] = None]
    /\ chain' = [chain EXCEPT ![r] = -1]

Next ==
    \E r \in Workers :
        \/ Request(r)
        \/ Restore(r)
        \/ CallModel(r)
        \/ ModelReply(r)
        \/ ModelFail(r)
        \/ PostProcess(r)
        \/ Respond(r)

Spec == Init /\ [][Next]_vars

NextConc ==
    \E r \in Workers :
        \/ ConcurrentRequest(r)
        \/ Restore(r)
        \/ CallModel(r)
        \/ ModelReply(r)
        \/ ModelFail(r)
        \/ PostProcess(r)
        \/ Respond(r)

SpecConc == Init /\ [][NextConc]_vars

\* ------------------------------------------------------------------ claims
HasKey(json, key) == json.type = "object" /\ key \in DOMAIN json.value
Succeeded(r) == pc[r] = "done" /\ status[r] = 200
PromptList(r) == body[r].history.prompt_list
Reply(r) == Last(llm_response[r]).content
StoredMessages(r) == state_messages(memory[r])

\* C1: a body without a human_input key is answered 400 at once: no store is
\* created, the model is not called, the reply has no response and no history.
C1_MissingInputRejected ==
    \A r \in Workers :
        (payload[r].type # "none" /\ ~HasKey(payload[r], "human_input"))
        => /\ pc[r] = "done"
           /\ status[r] = 400
           /\ ~memory[r].created
           /\ calls[r] = 0
           /\ DOMAIN body[r] = {}

\* C2: in a conversation whose every request resends the history the previous
\* one returned, the k-th reply's prompt_list is the previous prompt_list,
\* then the human input, then the assistant reply: 2k texts, whatever the
\* trimming did, and never the system instruction.
C2_ChainAppends ==
    \A r \in Workers :
        (Succeeded(r) /\ chain[r] >= 0)
        => LET prev == IF chain[r] = 0 THEN <<>>
                       ELSE payload[r].value["history"]["prompt_list"]
               pl == PromptList(r)
           IN  /\ Len(prev) = 2 * chain[r]
               /\ Len(pl) = 2 * (chain[r] + 1)
               /\ SubSeq(pl, 1, Len(prev)) = prev
               /\ pl[Len(pl) - 1] = payload[r].value["human_input"]
               /\ pl[Len(pl)] = Reply(r)
               /\ \A i \in 1..Len(pl) : pl[i] # SystemInstruction

\* the third request of a conversation whose messages exceed the budget, so
\* that the prompt was trimmed
C2_Witness ==
    \E r \in Workers :
        /\ Succeeded(r)
        /\ chain[r] = 2
        /\ get_num_tokens_from_messages(llm_response[r]) > max_tokens
        /\ Len(prompt[r]) < Len(llm_response[r])
        /\ Len(PromptList(r)) = 6

\* C3: in every prompt_list the encode step returns, the text at index i
\* (from 0) is that of a human turn iff i is even, of an assistant turn iff i
\* is odd, whatever history the request started from.
C3_Parity ==
    \A r \in Workers :
        Succeeded(r)
        => /\ Len(PromptList(r)) = Len(StoredMessages(r))
           /\ \A i \in 1..Len(PromptList(r)) :
                 /\ PromptList(r)[i] = StoredMessages(r)[i].content
                 /\ StoredMessages(r)[i].type = "human" <=> (i - 1) % 2 = 0
                 /\ StoredMessages(r)[i].type = "ai" <=> (i - 1) % 2 = 1

\* C4: restoring a session from a returned history T and snapshotting it
\* again gives the turns T was encoded from and a history equal to T.
C4_RoundTrip ==
    \A r \in Workers :
        Succeeded(r)
        => LET T == body[r].history
               restored == init_state_graph(T)
               again == post_processing(llm_response[r], restored.memory)
           IN  /\ restored.error = ""
               /\ state_messages(restored.memory) = StoredMessages(r)
               /\ again.error = ""
               /\ again.body.history = T

\* C5: a request sent without history returns exactly its own human input
\* and the reply to it, whatever other requests do meanwhile.
C5_NoCrossContamination ==
    \A r \in Workers :
        (Succeeded(r) /\ ~HasKey(payload[r], "history"))
        => PromptList(r) = <<payload[r].value["human_input"], Reply(r)>>

\* two first requests with different inputs, both answered, in flight together
C5_Witness ==
    \E p, q \in Workers :
        /\ p # q
        /\ Succeeded(p) /\ Succeeded(q)
        /\ ~HasKey(payload[p], "history") /\ ~HasKey(payload[q], "history")
        /\ payload[p].value["human_input"] # payload[q].value["human_input"]
        /\ Reply(p) # Reply(q)

\* C6 as stated: the requests in flight read and write one shared slot "1".
C6_SharedSlot ==
    \A p, q \in Workers :
        (memory[p].created /\ memory[q].created)
        => memory[p].storage["1"] = memory[q].storage["1"]

\* C6 amended: every request has a store of its own; its inference step
\* writes slot "1" of that store, and no step of one request changes the
\* store of another.
C6_OwnStore ==
    [][\A q \in Workers :
          /\ pc'[q] = pc[q] => memory'[q] = memory[q]
          /\ (pc[q] = "invoke" /\ pc'[q] = "awaiting")
             => /\ Len(memory'[q].storage["1"]) = Len(memory[q].storage["1"]) + 1
                /\ memory'[q].storage["2"] = memory[q].storage["2"]]_vars

\* two requests hold different checkpoints in slot "1" at the same time
C6_Witness ==
    \E p, q \in Workers :
        /\ p # q
        /\ pc[p] = "post" /\ pc[q] = "awaiting"
        /\ memory[p].storage["1"] # <<>>
        /\ memory[q].storage["1"] # <<>>
        /\ memory[p].storage["1"] # memory[q].storage["1"]

StructurallyValid(history) ==
    /\ {"prompt_list", "checkpoint", "metadata", "config", "new_version"}
          \subseteq DOMAIN history
    /\ "channel_values" \in DOMAIN history["checkpoint"]

\* C7: a request whose history fails structural validation ends with 400 and
\* the remote model is not called.
C7_MalformedHistoryIs400 ==
    \A r \in Workers :
        (/\ HasKey(payload[r], "human_input")
         /\ HasKey(payload[r], "history")
         /\ ~StructurallyValid(payload[r].value["history"]))
        => /\ calls[r] = 0
           /\ pc[r] = "done" => status[r] = 400

\* C8: a request that fails ends with an error status and a body without
\* response and history; a failed remote call was made once and ends 5xx; a
\* body with response and history comes only with 200 and no failure.
C8_AtomicFailure ==
    \A r \in Workers :
        pc[r] = "done"
        => /\ status[r] # 200
              => /\ status[r] \in 400..599
                 /\ DOMAIN body[r] = {}
           /\ error[r] # "" => status[r] # 200
           /\ error[r] = "RemoteUnavailable"
              => /\ calls[r] = 1
                 /\ status[r] \in 500..599
           /\ status[r] = 200
              => /\ DOMAIN body[r] = {"response", "history"}
                 /\ error[r] = ""

\* the remote call of a resumed conversation failed after the input
\* checkpoint was saved: the store is half updated
C8_Witness ==
    \E r \in Workers :
        /\ pc[r] = "done"
        /\ error[r] = "RemoteUnavailable"
        /\ chain[r] >= 1
        /\ Len(StoredMessages(r)) = 2 * chain[r] + 1
        /\ Last(StoredMessages(r)).type = "human"

\* C9: response is the newest assistant reply, nothing removed or added: it
\* equals the last element of the returned prompt_list.
C9_ResponseIsReply ==
    \A r \in Workers :
        Succeeded(r) => body[r].response = Last(PromptList(r))

\* C10: the prompt sent is the system instruction followed by a suffix of
\* whole turns of (history + new input) within 500 tokens whose first turn is
\* a human turn.
C10_PromptWindow ==
    \A r \in Workers :
        pc[r] = "awaiting"
        => LET window == Tail(prompt[r])
               all == StoredMessages(r)
           IN  /\ Head(prompt[r]) = SystemMessage
               /\ Len(window) <= Len(all)
               /\ window = Suffix(all, Len(window))
               /\ get_num_tokens_from_messages(window) <= max_tokens
               /\ window # <<>>
               /\ window[1].type = "human"

====
